---- MODULE Spec2Model ----
(***************************************************************************)
(* mongo-to-s3 (src/main.go, src/config/config.go): the export run of      *)
(* main() as a state machine.                                              *)
(*                                                                         *)
(*   Spec        main() from the argument checks to the construction of    *)
(*               the row source (main.go 262-306), as written.             *)
(*   SpecFanout  the fan-out engine (main.go 291-365): producer, N shard   *)
(*               workers, N uploaders, barrier, verification, manifest,    *)
(*               payload, entered with a live session and with every       *)
(*               value the captured variable err can hold.                 *)
(*   SpecVerify  the post-barrier code (main.go 348-365) applied to every  *)
(*               pair of counter values.                                   *)
(*                                                                         *)
(* log.Fatal is os.Exit(1): it stops every goroutine at once and runs no   *)
(* deferred call.  Goroutines interleave at the granularity of channel,    *)
(* pipe, wait-group and atomic operations.                                 *)
(***************************************************************************)
EXTENDS Integers, Sequences, FiniteSets, TLC

\* Largest number of output parts (flags.NumFiles) explored.
MaxShards == 2
\* Largest number of documents in the source collection explored.
MaxRows == 3

Shards == 0 .. (MaxShards - 1)

NoErr == "nil"
DialErr == "no reachable servers"
AtoiErr == "strconv.Atoi: invalid syntax"
TableErr == "Could not find source table in config"
MarshalErr == "json: marshal error"

\* flags.Bucket default (main.go 253), the table's dest name and the run's
\* timestamp (main.go 271) with the fields time.Parse reads back from it.
Bucket == "TODO"
Destination == "students"
ConfFileName == "s3://TODO/mongo/il/_data_timestamp_year=2024/_data_timestamp_month=01/_data_timestamp_day=01/mongo_il_2024-01-01T00:00:00Z.yml"
Timestamp == [text |-> "2024-01-01T00:00:00Z", year |-> 2024, month |-> 1, day |-> 1]

VARIABLES
    procState,        \* "running" | "fatal" (log.Fatal) | "panic" | "exit0" (main returned)
    fatalBy,          \* who stopped the process: <<"main">>, <<"worker", i>>, <<"uploader", i>>
    fatalMsg,         \* the message of the log.Fatal call (or of the panic)
    pc,               \* main's position
    err,              \* main's variable err (main.go 257), captured by the worker closures
    mongoClient,      \* "nil" | "session"
    numFilesArg,      \* flags.NumFiles, a string
    numFiles,         \* the parsed number of parts
    i,                \* the loop index of main.go 311
    outputFilenames,  \* main.go 293
    waitCount,        \* the counter of sync.WaitGroup
    totalSummedRows,  \* main.go 296
    totalMongoRows,   \* main.go 297
    nRows,            \* number of documents the collection holds
    mongoPos,         \* documents the iterator has yielded so far
    chanRow,          \* the row being sent on the shared Rows() channel (0: none)
    srcClosed,        \* the shared Rows() channel is closed
    wpc,              \* per shard worker: its position
    taken,            \* per shard worker: the rows it received, in order
    rows,             \* per shard worker: exportData's counter rows
    count,            \* per shard worker: the count exportData returned
    zbuf,             \* per shard worker: items held inside the gzip writer
    pipe,             \* per shard: the chunk of the write blocked in io.Pipe (<<>>: none)
    wClosed,          \* per shard: the pipe's write end is closed
    upc,              \* per uploader: its position
    upName,           \* per uploader: the outputName its closure captured
    received,         \* per uploader: the items read from the pipe, in order
    uploadErr,        \* per uploader: uploader.Upload returned an error
    manifestBody,     \* the entries createManifest marshalled
    manifestCalls,    \* number of calls of uploadFile for the manifest
    manifestStored,   \* the manifest object is in the bucket
    payload,          \* what analyticspipeline.PrintPayload printed (<<>>: nothing)
    tInput,           \* the row the source yielded (exportData's transform chain)
    tTable,           \* table.Fields of the chain's config.Table
    tRow,             \* the row as it leaves the last stage that ran
    tPrev,            \* the row that stage was given
    tStage            \* the last stage of the chain that ran ("none", "panic")

exitVars == <<procState, fatalBy, fatalMsg>>
mainVars == <<pc, err, mongoClient, numFilesArg, numFiles, i, outputFilenames, waitCount>>
cntVars == <<totalSummedRows, totalMongoRows>>
srcVars == <<nRows, mongoPos, chanRow, srcClosed>>
workerVars == <<wpc, taken, rows, count, zbuf, pipe, wClosed>>
upVars == <<upc, upName, received, uploadErr>>
outVars == <<manifestBody, manifestCalls, manifestStored, payload>>
rowVars == <<tInput, tTable, tRow, tPrev, tStage>>
vars == <<exitVars, mainVars, cntVars, srcVars, workerVars, upVars, outVars, rowVars>>

-----------------------------------------------------------------------------
(* Pure helpers *)

Digit(d) ==
    CASE d = 0 -> "0" [] d = 1 -> "1" [] d = 2 -> "2" [] d = 3 -> "3" [] d = 4 -> "4"
      [] d = 5 -> "5" [] d = 6 -> "6" [] d = 7 -> "7" [] d = 8 -> "8" [] OTHER -> "9"

RECURSIVE Itoa(_)
\* strconv.Itoa for n >= 0
Itoa(n) == IF n < 10 THEN Digit(n) ELSE Itoa(n \div 10) \o Digit(n % 10)

\* fmt's %02d
Pad2(n) == IF n < 10 THEN "0" \o Digit(n) ELSE Itoa(n)

\* strconv.Atoi on the argument strings explored: a decimal numeral or not.
Atoi(s) ==
    IF \E n \in 0 .. (MaxShards + 1) : Itoa(n) = s
    THEN [val |-> CHOOSE n \in 0 .. (MaxShards + 1) : Itoa(n) = s, err |-> NoErr]
    ELSE [val |-> 0, err |-> AtoiErr]

formatFilename(timestamp, collectionName, fileIndex, extension) ==
    LET idx == IF fileIndex # "" THEN "_" \o fileIndex ELSE fileIndex
        filePath == "mongo/" \o collectionName
                    \o "/_data_timestamp_year=" \o Pad2(timestamp.year)
                    \o "/_data_timestamp_month=" \o Pad2(timestamp.month)
                    \o "/_data_timestamp_day=" \o Pad2(timestamp.day) \o "/"
        fileName == "mongo_" \o collectionName \o "_" \o timestamp.text \o idx \o extension
    IN  filePath \o fileName

S3Url(bucket, fn) == "s3://" \o bucket \o "/" \o fn

RECURSIVE ManifestEntries(_, _)
ManifestEntries(bucket, fns) ==
    IF fns = <<>> THEN <<>>
    ELSE <<[url |-> S3Url(bucket, Head(fns)), mandatory |-> TRUE]>>
         \o ManifestEntries(bucket, Tail(fns))

RECURSIVE ManifestEntriesReversed(_, _)
ManifestEntriesReversed(bucket, fns) ==
    IF fns = <<>> THEN <<>>
    ELSE ManifestEntriesReversed(bucket, Tail(fns))
         \o <<[url |-> S3Url(bucket, Head(fns)), mandatory |-> TRUE]>>

createManifestPrepends(bucket, dataFilenames) == ManifestEntriesReversed(bucket, dataFilenames)

\* createManifest: one entry per file name, in the order of dataFilenames.
createManifest(bucket, dataFilenames) == ManifestEntries(bucket, dataFilenames)

RECURSIVE SumUpTo(_, _)
SumUpTo(f, n) == IF n = 0 THEN 0 ELSE f[n - 1] + SumUpTo(f, n - 1)

Running == procState = "running"

FatalOnlyLogs(who, msg) ==
    /\ procState' = procState
    /\ fatalBy' = who
    /\ fatalMsg' = msg

\* log.Fatal: the message is logged and os.Exit(1) ends the process.
Fatal(who, msg) ==
    /\ procState' = "fatal"
    /\ fatalBy' = who
    /\ fatalMsg' = msg

-----------------------------------------------------------------------------
(* uploadFile, main.go 185-209 *)

uploadFileOutcomeNoUploadCheck(regionOk, uploadOk) ==
    IF ~regionOk THEN "fatalRegion" ELSE "ok"

\* What a call of uploadFile ends in, given the results of getRegionForBucket
\* and of uploader.Upload.
uploadFileOutcome(regionOk, uploadOk) ==
    IF ~regionOk THEN "fatalRegion"
    ELSE IF ~uploadOk THEN "fatalUpload"
    ELSE "ok"

RegionMsg == "err getting region for bucket"
UploadMsg == "err uploading to s3 path"

-----------------------------------------------------------------------------
(* The row source, main.go 299-306: configuredOptimusTable and the counting *)
(* transform.  optimus.Transform starts one goroutine that ranges over the  *)
(* mongo rows, runs the Each callback and sends the row on the one Rows()   *)
(* channel every shard worker receives from.                                *)

\* main.go 299-310.  s.DB("") on a nil *mgo.Session dereferences it.
SetupSource ==
    /\ Running /\ pc = "source"
    /\ IF mongoClient = "nil"
       THEN /\ procState' = "panic"
            /\ fatalBy' = <<"main">>
            /\ fatalMsg' = "invalid memory address or nil pointer dereference"
            /\ UNCHANGED <<pc, i, waitCount>>
       ELSE /\ pc' = "spawn"
            /\ i' = 0
            /\ waitCount' = numFiles
            /\ UNCHANGED exitVars
    /\ UNCHANGED <<err, mongoClient, numFilesArg, numFiles, outputFilenames>>
    /\ UNCHANGED <<cntVars, srcVars, workerVars, upVars, outVars>>
    /\ UNCHANGED rowVars

SourceStarted == pc \in {"spawn", "wait", "verify", "manifest", "uploadManifest", "payload"}

\* main.go 300-306: the Each callback counts the row, then the row is sent.
Produce ==
    /\ Running /\ SourceStarted
    /\ ~srcClosed /\ chanRow = 0 /\ mongoPos < nRows
    /\ mongoPos' = mongoPos + 1
    /\ totalMongoRows' = totalMongoRows + 1
    /\ chanRow' = mongoPos + 1
    /\ UNCHANGED <<nRows, srcClosed, totalSummedRows>>
    /\ UNCHANGED <<exitVars, mainVars, workerVars, upVars, outVars>>
    /\ UNCHANGED rowVars

\* The iterator is exhausted and the last row was received: Rows() is closed.
SourceClose ==
    /\ Running /\ SourceStarted
    /\ ~srcClosed /\ chanRow = 0 /\ mongoPos = nRows
    /\ srcClosed' = TRUE
    /\ UNCHANGED <<nRows, mongoPos, chanRow>>
    /\ UNCHANGED <<exitVars, mainVars, cntVars, workerVars, upVars, outVars>>
    /\ UNCHANGED rowVars

-----------------------------------------------------------------------------
(* main's loop, main.go 311-347 *)

CapturedShared(names, k, outputName) ==
    [u \in DOMAIN names |-> IF u <= k THEN outputName ELSE names[u]]

\* main.go 312, 343-346: outputName is declared in the loop body, so the
\* uploader's closure of iteration k holds a variable of its own.
Captured(names, k, outputName) == [names EXCEPT ![k] = outputName]

\* One iteration: the part's name, the pipe, the worker and its uploader.
SpawnShard ==
    /\ Running /\ pc = "spawn" /\ i < numFiles
    /\ LET outputName == formatFilename(Timestamp, Destination, Itoa(i), ".json.gz")
       IN  /\ outputFilenames' = Append(outputFilenames, outputName)
           /\ upName' = Captured(upName, i, outputName)
    /\ wpc' = [wpc EXCEPT ![i] = "start"]
    /\ upc' = [upc EXCEPT ![i] = "region"]
    /\ i' = i + 1
    /\ UNCHANGED <<pc, err, mongoClient, numFilesArg, numFiles, waitCount>>
    /\ UNCHANGED <<taken, rows, count, zbuf, pipe, wClosed, received, uploadErr>>
    /\ UNCHANGED <<exitVars, cntVars, srcVars, outVars>>
    /\ UNCHANGED rowVars

LoopExit ==
    /\ Running /\ pc = "spawn" /\ i = numFiles
    /\ pc' = "wait"
    /\ UNCHANGED <<err, mongoClient, numFilesArg, numFiles, i, outputFilenames, waitCount>>
    /\ UNCHANGED <<exitVars, cntVars, srcVars, workerVars, upVars, outVars>>
    /\ UNCHANGED rowVars

-----------------------------------------------------------------------------
(* The shard worker, main.go 318-337, with exportData, main.go 131-144 *)

\* main.go 319-322: the error of gzip.NewWriterLevel is discarded; the test
\* reads main's err.
GzipCheck(w) ==
    /\ Running /\ wpc[w] = "start"
    /\ IF err # NoErr
       THEN /\ Fatal(<<"worker", w>>, "invalid compression level")
            /\ UNCHANGED wpc
       ELSE /\ wpc' = [wpc EXCEPT ![w] = "export"]
            /\ UNCHANGED exitVars
    /\ UNCHANGED <<taken, rows, count, zbuf, pipe, wClosed>>
    /\ UNCHANGED <<mainVars, cntVars, srcVars, upVars, outVars>>
    /\ UNCHANGED rowVars

ClaimKeepsRow(row) == row

\* What is left on the shared channel once a receiver has taken the row.
ChanAfterReceive(row) == 0

\* The first stage of the worker's transform chain receives the next row.
Claim(w) ==
    /\ Running /\ wpc[w] = "export"
    /\ chanRow # 0
    /\ taken' = [taken EXCEPT ![w] = Append(@, chanRow)]
    /\ chanRow' = ChanAfterReceive(chanRow)
    /\ UNCHANGED <<nRows, mongoPos, srcClosed>>
    /\ UNCHANGED <<wpc, rows, count, zbuf, pipe, wClosed>>
    /\ UNCHANGED <<exitVars, mainVars, cntVars, upVars, outVars>>
    /\ UNCHANGED rowVars

ChainNewest(got, done) == got[Len(got)]

\* Every stage of the transform chain is one goroutine that ranges over the
\* channel of the stage before it: rows leave the chain in the order in
\* which its first stage received them.
ChainNext(got, done) == got[done + 1]

\* main.go 139-142 and the json sink: the row is counted, encoded and written
\* to the gzip writer.  The first Write sends the gzip header down the pipe;
\* the compressor emits what it holds when its block fills (flush).
Sink(w) ==
    /\ Running /\ wpc[w] = "export"
    /\ rows[w] < Len(taken[w])
    /\ \E flush \in BOOLEAN :
         LET r == ChainNext(taken[w], rows[w])
             hdr == IF rows[w] = 0 THEN <<"hdr">> ELSE <<>>
             held == Append(zbuf[w], r)
             out == hdr \o (IF flush THEN held ELSE <<>>)
         IN  /\ rows' = [rows EXCEPT ![w] = @ + 1]
             /\ zbuf' = [zbuf EXCEPT ![w] = IF flush THEN <<>> ELSE held]
             /\ pipe' = [pipe EXCEPT ![w] = out]
             /\ wpc' = [wpc EXCEPT ![w] = IF out = <<>> THEN "export" ELSE "writeWait"]
    /\ UNCHANGED <<taken, count, wClosed>>
    /\ UNCHANGED <<exitVars, mainVars, cntVars, srcVars, upVars, outVars>>
    /\ UNCHANGED rowVars

DefersGzipFirst == <<"zipClose", "pipeClose">>

\* main.go 327-328: the worker's defer statements, in the order they are
\* executed: writer.Close() is deferred first, zippedOutput.Close() second.
Defers == <<"pipeClose", "zipClose">>

\* Deferred calls run last-in first-out when the closure returns.
FirstDeferred == Defers[Len(Defers)]

NextDeferred(call) ==
    LET k == CHOOSE j \in 1 .. Len(Defers) : Defers[j] = call
    IN  IF k > 1 THEN Defers[k - 1] ELSE "ret"

WriteDoneAtOnce(chunk) == TRUE

\* io.Pipe has no buffer: the bytes of a Write stay with the blocked writer
\* until Reads have taken all of them.
WriteDone(chunk) == chunk = <<>>

\* Bytes the pipe may hold for Writes that have returned.
PipeCapacity == 0

\* A pipe Write returns once the reader has taken the whole chunk.
WriteReturn(w) ==
    /\ Running /\ wpc[w] \in {"writeWait", "zipWait"}
    /\ WriteDone(pipe[w])
    /\ wpc' = [wpc EXCEPT ![w] = IF @ = "writeWait" THEN "export" ELSE NextDeferred("zipClose")]
    /\ UNCHANGED <<taken, rows, count, zbuf, pipe, wClosed>>
    /\ UNCHANGED <<exitVars, mainVars, cntVars, srcVars, upVars, outVars>>
    /\ UNCHANGED rowVars

\* The shared channel is closed and the chain has drained: Sink returns nil
\* and exportData returns rows (main.go 143, 330).
ExportReturn(w) ==
    /\ Running /\ wpc[w] = "export"
    /\ srcClosed /\ chanRow = 0 /\ rows[w] = Len(taken[w])
    /\ count' = [count EXCEPT ![w] = rows[w]]
    /\ wpc' = [wpc EXCEPT ![w] = "add"]
    /\ UNCHANGED <<taken, rows, zbuf, pipe, wClosed>>
    /\ UNCHANGED <<exitVars, mainVars, cntVars, srcVars, upVars, outVars>>
    /\ UNCHANGED rowVars

\* main.go 331-333: exportData returned an error (the encoder, a write, or
\* the source's Err()).
ExportFail(w) ==
    /\ Running /\ wpc[w] \in {"export", "writeWait"}
    /\ Fatal(<<"worker", w>>, "err reading table")
    /\ UNCHANGED <<mainVars, cntVars, srcVars, workerVars, upVars, outVars>>
    /\ UNCHANGED rowVars

StoreInt64(addr, delta) == delta

\* sync/atomic.AddInt64: the new value of *addr, read and written in one step.
AddInt64(addr, delta) == addr + delta

\* main.go 336
AtomicAdd(w) ==
    /\ Running /\ wpc[w] = "add"
    /\ totalSummedRows' = AddInt64(totalSummedRows, count[w])
    /\ wpc' = [wpc EXCEPT ![w] = FirstDeferred]
    /\ UNCHANGED <<totalMongoRows, taken, rows, count, zbuf, pipe, wClosed>>
    /\ UNCHANGED <<exitVars, mainVars, srcVars, upVars, outVars>>
    /\ UNCHANGED rowVars

\* main.go 328, deferred: zippedOutput.Close() writes the header if no row
\* was written, what the compressor holds, and the trailer.
ZipClose(w) ==
    /\ Running /\ wpc[w] = "zipClose"
    /\ pipe' = [pipe EXCEPT ![w] =
                  (IF rows[w] = 0 THEN <<"hdr">> ELSE <<>>) \o zbuf[w] \o <<"trl">>]
    /\ zbuf' = [zbuf EXCEPT ![w] = <<>>]
    /\ wpc' = [wpc EXCEPT ![w] = "zipWait"]
    /\ UNCHANGED <<taken, rows, count, wClosed>>
    /\ UNCHANGED <<exitVars, mainVars, cntVars, srcVars, upVars, outVars>>
    /\ UNCHANGED rowVars

\* main.go 327, deferred: writer.Close()
PipeClose(w) ==
    /\ Running /\ wpc[w] = "pipeClose"
    /\ wClosed' = [wClosed EXCEPT ![w] = TRUE]
    /\ wpc' = [wpc EXCEPT ![w] = NextDeferred("pipeClose")]
    /\ UNCHANGED <<taken, rows, count, zbuf, pipe>>
    /\ UNCHANGED <<exitVars, mainVars, cntVars, srcVars, upVars, outVars>>
    /\ UNCHANGED rowVars

\* main.go 337: the closure returns and the goroutine ends.
WorkerReturn(w) ==
    /\ Running /\ wpc[w] = "ret"
    /\ wpc' = [wpc EXCEPT ![w] = "done"]
    /\ UNCHANGED <<taken, rows, count, zbuf, pipe, wClosed>>
    /\ UNCHANGED <<exitVars, mainVars, cntVars, srcVars, upVars, outVars>>
    /\ UNCHANGED rowVars

-----------------------------------------------------------------------------
(* The uploader goroutine, main.go 343-346, running uploadFile on the pipe *)

\* main.go 188-191
RegionLookup(u) ==
    /\ Running /\ upc[u] = "region"
    /\ \E regionOk \in BOOLEAN :
         IF uploadFileOutcome(regionOk, TRUE) = "fatalRegion"
         THEN /\ Fatal(<<"uploader", u>>, RegionMsg)
              /\ UNCHANGED upc
         ELSE /\ upc' = [upc EXCEPT ![u] = "upload"]
              /\ UNCHANGED exitVars
    /\ UNCHANGED <<upName, received, uploadErr>>
    /\ UNCHANGED <<mainVars, cntVars, srcVars, workerVars, outVars>>
    /\ UNCHANGED rowVars

\* uploader.Upload reads the body: a Read takes the chunk of the blocked Write.
UploadRead(u) ==
    /\ Running /\ upc[u] = "upload"
    /\ pipe[u] # <<>>
    /\ received' = [received EXCEPT ![u] = @ \o pipe[u]]
    /\ pipe' = [pipe EXCEPT ![u] = <<>>]
    /\ UNCHANGED <<wpc, taken, rows, count, zbuf, wClosed>>
    /\ UNCHANGED <<upc, upName, uploadErr>>
    /\ UNCHANGED <<exitVars, mainVars, cntVars, srcVars, outVars>>
    /\ UNCHANGED rowVars

WaitGroupDoneMissing(n) == n

\* sync.WaitGroup.Done
WaitGroupDone(n) == n - 1

BodyDrained(chunk, closed) == chunk = <<>>

\* The Body reader of uploader.Upload is at EOF: nothing is left in the pipe
\* and its write end is closed.
BodyAtEOF(chunk, closed) == chunk = <<>> /\ closed

\* main.go 200-208, 344: uploader.Upload returns, with success only after it
\* has read the body to EOF, with an error at any time; on an error
\* uploadFile ends the process, otherwise the deferred Done runs.
UploadReturn(u) ==
    /\ Running /\ upc[u] = "upload"
    /\ \E uploadOk \in BOOLEAN :
         /\ uploadOk => BodyAtEOF(pipe[u], wClosed[u])
         /\ uploadErr' = [uploadErr EXCEPT ![u] = ~uploadOk]
         /\ IF uploadFileOutcome(TRUE, uploadOk) = "ok"
            THEN /\ upc' = [upc EXCEPT ![u] = "done"]
                 /\ waitCount' = WaitGroupDone(waitCount)
                 /\ UNCHANGED exitVars
            ELSE /\ Fatal(<<"uploader", u>>, UploadMsg)
                 /\ UNCHANGED <<upc, waitCount>>
    /\ UNCHANGED <<upName, received>>
    /\ UNCHANGED <<pc, err, mongoClient, numFilesArg, numFiles, i, outputFilenames>>
    /\ UNCHANGED <<cntVars, srcVars, workerVars, outVars>>
    /\ UNCHANGED rowVars

-----------------------------------------------------------------------------
(* main after the loop, main.go 348-365 *)

WaitReturnsAtOne(n) == n <= 1

\* sync.WaitGroup.Wait returns when the counter is zero.
WaitReturns(n) == n = 0

\* main.go 348
WaitPass ==
    /\ Running /\ pc = "wait"
    /\ WaitReturns(waitCount)
    /\ pc' = "verify"
    /\ UNCHANGED <<err, mongoClient, numFilesArg, numFiles, i, outputFilenames, waitCount>>
    /\ UNCHANGED <<exitVars, cntVars, srcVars, workerVars, upVars, outVars>>
    /\ UNCHANGED rowVars

RowsMismatchNever(summed, mongo) == FALSE

RowsMismatchOnlyMore(summed, mongo) == summed > mongo

\* main.go 350
RowsMismatch(summed, mongo) == summed # mongo

MismatchMsg == "number of rows written to s3 does not match the number of rows pulled from mongo"

\* main.go 349-352
Verify ==
    /\ Running /\ pc = "verify"
    /\ IF RowsMismatch(totalSummedRows, totalMongoRows)
       THEN /\ Fatal(<<"main">>, MismatchMsg)
            /\ UNCHANGED pc
       ELSE /\ pc' = "manifest"
            /\ UNCHANGED exitVars
    /\ UNCHANGED <<err, mongoClient, numFilesArg, numFiles, i, outputFilenames, waitCount>>
    /\ UNCHANGED <<cntVars, srcVars, workerVars, upVars, outVars>>
    /\ UNCHANGED rowVars

\* main.go 354-358: err is main's variable; json.Marshal may return an error.
CreateManifest ==
    /\ Running /\ pc = "manifest"
    /\ \E marshalOk \in BOOLEAN :
         IF marshalOk
         THEN /\ manifestBody' = createManifest(Bucket, outputFilenames)
              /\ err' = NoErr
              /\ pc' = "uploadManifest"
              /\ UNCHANGED exitVars
         ELSE /\ err' = MarshalErr
              /\ Fatal(<<"main">>, "Error creating manifest")
              /\ UNCHANGED <<manifestBody, pc>>
    /\ UNCHANGED <<mongoClient, numFilesArg, numFiles, i, outputFilenames, waitCount>>
    /\ UNCHANGED <<manifestCalls, manifestStored, payload>>
    /\ UNCHANGED <<cntVars, srcVars, workerVars, upVars>>
    /\ UNCHANGED rowVars

\* main.go 359: uploadFile(manifestReader, bucket, manifestFilename)
UploadManifest ==
    /\ Running /\ pc = "uploadManifest"
    /\ manifestCalls' = manifestCalls + 1
    /\ \E regionOk \in BOOLEAN, uploadOk \in BOOLEAN :
         LET outcome == uploadFileOutcome(regionOk, uploadOk)
         IN  IF outcome = "ok"
             THEN /\ manifestStored' = uploadOk
                  /\ pc' = "payload"
                  /\ UNCHANGED exitVars
             ELSE /\ Fatal(<<"main">>, IF outcome = "fatalRegion" THEN RegionMsg ELSE UploadMsg)
                  /\ UNCHANGED <<manifestStored, pc>>
    /\ UNCHANGED <<err, mongoClient, numFilesArg, numFiles, i, outputFilenames, waitCount>>
    /\ UNCHANGED <<manifestBody, payload>>
    /\ UNCHANGED <<cntVars, srcVars, workerVars, upVars>>
    /\ UNCHANGED rowVars

\* main.go 361-366: the payload is printed and main returns.
PrintPayload ==
    /\ Running /\ pc = "payload"
    /\ payload' = <<[tables |-> Destination, config |-> ConfFileName, date |-> Timestamp.text]>>
    /\ pc' = "done"
    /\ procState' = "exit0"
    /\ UNCHANGED <<fatalBy, fatalMsg>>
    /\ UNCHANGED <<err, mongoClient, numFilesArg, numFiles, i, outputFilenames, waitCount>>
    /\ UNCHANGED <<manifestBody, manifestCalls, manifestStored>>
    /\ UNCHANGED <<cntVars, srcVars, workerVars, upVars>>
    /\ UNCHANGED rowVars

-----------------------------------------------------------------------------
(* main before the fan-out, main.go 262-289 *)

NumFilesInvalidOnlyNegative(n) == n < 0

\* main.go 266
NumFilesInvalid(n) == n < 1

\* main.go 262-268
ParseNumFiles ==
    /\ Running /\ pc = "parse"
    /\ LET r == Atoi(numFilesArg)
       IN  /\ numFiles' = r.val
           /\ err' = r.err
           /\ IF r.err # NoErr
              THEN Fatal(<<"main">>, r.err) /\ UNCHANGED pc
              ELSE IF NumFilesInvalid(r.val)
              THEN Fatal(<<"main">>, "Must specify a number of output file parts >= 1")
                   /\ UNCHANGED pc
              ELSE pc' = "config" /\ UNCHANGED exitVars
    /\ UNCHANGED <<mongoClient, numFilesArg, i, outputFilenames, waitCount>>
    /\ UNCHANGED <<cntVars, srcVars, workerVars, upVars, outVars>>
    /\ UNCHANGED rowVars

\* main.go 273-278: the named config is looked up, parsed (parseConfigString)
\* and copied to the bucket (copyConfigFile); each step ends the run when it
\* fails.
LoadConfig ==
    /\ Running /\ pc = "config"
    /\ \E outcome \in {"ok", "config sucks", "err parsing config file",
                        "error writing output file"} :
         IF outcome = "ok"
         THEN pc' = "table" /\ UNCHANGED exitVars
         ELSE Fatal(<<"main">>, outcome) /\ UNCHANGED pc
    /\ UNCHANGED <<err, mongoClient, numFilesArg, numFiles, i, outputFilenames, waitCount>>
    /\ UNCHANGED <<cntVars, srcVars, workerVars, upVars, outVars>>
    /\ UNCHANGED rowVars

\* main.go 279-282: getTableFromConf
LookupTable ==
    /\ Running /\ pc = "table"
    /\ \E found \in BOOLEAN :
         IF found
         THEN err' = NoErr /\ pc' = "connect" /\ UNCHANGED exitVars
         ELSE err' = TableErr /\ Fatal(<<"main">>, TableErr) /\ UNCHANGED pc
    /\ UNCHANGED <<mongoClient, numFilesArg, numFiles, i, outputFilenames, waitCount>>
    /\ UNCHANGED <<cntVars, srcVars, workerVars, upVars, outVars>>
    /\ UNCHANGED rowVars

\* main.go 70-93, 284: mongoConnection returns (session, nil) or (nil, err).
Connect ==
    /\ Running /\ pc = "connect"
    /\ \E dialOk \in BOOLEAN :
         /\ mongoClient' = IF dialOk THEN "session" ELSE "nil"
         /\ err' = IF dialOk THEN NoErr ELSE DialErr
    /\ pc' = "checkConn"
    /\ UNCHANGED <<numFilesArg, numFiles, i, outputFilenames, waitCount>>
    /\ UNCHANGED <<exitVars, cntVars, srcVars, workerVars, upVars, outVars>>
    /\ UNCHANGED rowVars

\* main.go 285-289
CheckConnection ==
    /\ Running /\ pc = "checkConn"
    /\ IF err # NoErr
       THEN /\ pc' = "source"
            /\ UNCHANGED exitVars
       ELSE /\ Fatal(<<"main">>, "Could not connect to mongo")
            /\ UNCHANGED pc
    /\ UNCHANGED <<err, mongoClient, numFilesArg, numFiles, i, outputFilenames, waitCount>>
    /\ UNCHANGED <<cntVars, srcVars, workerVars, upVars, outVars>>
    /\ UNCHANGED rowVars

-----------------------------------------------------------------------------
(* Initial states and specifications *)

\* What the declarations of main set before any goroutine exists.
Fresh ==
    /\ procState = "running" /\ fatalBy = <<>> /\ fatalMsg = ""
    /\ i = 0 /\ outputFilenames = <<>> /\ waitCount = 0
    /\ totalSummedRows = 0 /\ totalMongoRows = 0
    /\ nRows \in 0 .. MaxRows
    /\ mongoPos = 0 /\ chanRow = 0 /\ srcClosed = FALSE
    /\ wpc = [w \in Shards |-> "none"]
    /\ taken = [w \in Shards |-> <<>>]
    /\ rows = [w \in Shards |-> 0]
    /\ count = [w \in Shards |-> 0]
    /\ zbuf = [w \in Shards |-> <<>>]
    /\ pipe = [w \in Shards |-> <<>>]
    /\ wClosed = [w \in Shards |-> FALSE]
    /\ upc = [u \in Shards |-> "none"]
    /\ upName = [u \in Shards |-> ""]
    /\ received = [u \in Shards |-> <<>>]
    /\ uploadErr = [u \in Shards |-> FALSE]
    /\ manifestBody = <<>> /\ manifestCalls = 0 /\ manifestStored = FALSE
    /\ payload = <<>>
    /\ tInput = <<>> /\ tTable = <<>> /\ tRow = <<>> /\ tPrev = <<>> /\ tStage = "none"

\* main.go 262: the arguments are parsed, NumFiles is any small numeral or
\* not a numeral.
Init ==
    /\ Fresh
    /\ pc = "parse"
    /\ err = NoErr
    /\ mongoClient = "nil"
    /\ numFilesArg \in {Itoa(n) : n \in 0 .. MaxShards} \cup {"x"}
    /\ numFiles = 0

StartupNext ==
    \/ ParseNumFiles
    \/ LoadConfig
    \/ LookupTable
    \/ Connect
    \/ CheckConnection
    \/ SetupSource

Spec == Init /\ [][StartupNext]_vars

\* main.go 291: the engine's entry, for every number of parts, every
\* collection size and every value of err.
InitFanout ==
    /\ Fresh
    /\ pc = "source"
    /\ err \in {NoErr, DialErr}
    /\ mongoClient = "session"
    /\ numFiles \in 1 .. MaxShards
    /\ numFilesArg = Itoa(numFiles)

WorkerNext(w) ==
    \/ GzipCheck(w)
    \/ Claim(w)
    \/ Sink(w)
    \/ WriteReturn(w)
    \/ ExportReturn(w)
    \/ ExportFail(w)
    \/ AtomicAdd(w)
    \/ ZipClose(w)
    \/ PipeClose(w)
    \/ WorkerReturn(w)

UploaderNext(u) ==
    \/ RegionLookup(u)
    \/ UploadRead(u)
    \/ UploadReturn(u)

PostBarrierNext ==
    \/ WaitPass
    \/ Verify
    \/ CreateManifest
    \/ UploadManifest
    \/ PrintPayload

FanoutNext ==
    \/ SetupSource
    \/ Produce
    \/ SourceClose
    \/ SpawnShard
    \/ LoopExit
    \/ \E w \in Shards : WorkerNext(w)
    \/ \E u \in Shards : UploaderNext(u)
    \/ PostBarrierNext

SpecFanout == InitFanout /\ [][FanoutNext]_vars

\* A step that does not end in log.Fatal.
NoFatal(A) == A /\ procState' # "fatal"

\* The Go scheduler lets every goroutine that can run take its next step:
\* the source's goroutine, each worker, each uploader and main.  Nothing
\* obliges a call to fail.
FanoutFairness ==
    /\ WF_vars(Produce \/ SourceClose)
    /\ WF_vars(NoFatal(SetupSource \/ SpawnShard \/ LoopExit \/ PostBarrierNext))
    /\ \A w \in Shards : WF_vars(NoFatal(WorkerNext(w)))
    /\ \A u \in Shards : WF_vars(NoFatal(UploaderNext(u)))

SpecFanoutFair == SpecFanout /\ FanoutFairness

\* The names main's loop gives the parts 0 .. n-1 (main.go 312-313).
LoopFilenames(n) ==
    [k \in 1 .. n |-> formatFilename(Timestamp, Destination, Itoa(k - 1), ".json.gz")]

\* main.go 348: main is at the barrier, every worker has returned its count
\* and every uploader has returned; the two counters hold any values.
InitVerify ==
    /\ procState = "running" /\ fatalBy = <<>> /\ fatalMsg = ""
    /\ pc = "wait"
    /\ err = NoErr
    /\ mongoClient = "session"
    /\ numFiles \in 1 .. MaxShards
    /\ numFilesArg = Itoa(numFiles)
    /\ i = numFiles
    /\ outputFilenames = LoopFilenames(numFiles)
    /\ waitCount = 0
    /\ count \in [Shards -> 0 .. MaxRows]
    /\ \A w \in Shards : w >= numFiles => count[w] = 0
    /\ rows = count
    /\ totalSummedRows = SumUpTo(count, numFiles)
    /\ totalMongoRows \in 0 .. MaxRows
    /\ nRows = totalMongoRows /\ mongoPos = totalMongoRows
    /\ chanRow = 0 /\ srcClosed = TRUE
    /\ wpc = [w \in Shards |-> IF w < numFiles THEN "done" ELSE "none"]
    /\ taken = [w \in Shards |-> <<>>]
    /\ zbuf = [w \in Shards |-> <<>>]
    /\ pipe = [w \in Shards |-> <<>>]
    /\ wClosed = [w \in Shards |-> w < numFiles]
    /\ upc = [u \in Shards |-> IF u < numFiles THEN "done" ELSE "none"]
    /\ upName = [u \in Shards |-> IF u < numFiles THEN LoopFilenames(numFiles)[u + 1] ELSE ""]
    /\ received = [u \in Shards |-> <<>>]
    /\ uploadErr = [u \in Shards |-> FALSE]
    /\ manifestBody = <<>> /\ manifestCalls = 0 /\ manifestStored = FALSE
    /\ payload = <<>>
    /\ tInput = <<>> /\ tTable = <<>> /\ tRow = <<>> /\ tPrev = <<>> /\ tStage = "none"

SpecVerify == InitVerify /\ [][PostBarrierNext]_vars

\* main.go 262-365: the startup as written together with the engine entered
\* as in SpecFanout.
InitRun == Init \/ InitFanout

RunNext ==
    \/ StartupNext
    \/ FanoutNext

SpecRun == InitRun /\ [][RunNext]_vars

-----------------------------------------------------------------------------
(* Row values.  An optimus.Row is a map from string keys to values; a value *)
(* is a number, a string, a boolean, nil, a nested map or an array          *)
(* ([]interface{}).                                                         *)

Num(n) == [kind |-> "num", n |-> n]
Str(s) == [kind |-> "str", s |-> s]
Bool(b) == [kind |-> "bool", b |-> b]
Null == [kind |-> "null"]
MapVal(m) == [kind |-> "map", m |-> m]
Arr(a) == [kind |-> "arr", a |-> a]

\* optimus.Row{}
EmptyRow == [x \in {} |-> Null]

\* r[k] = v on a Go map
Put(r, k, v) == [x \in (DOMAIN r) \cup {k} |-> IF x = k THEN v ELSE r[x]]

\* The keys the explored rows use, in the byte order encoding/json sorts map
\* keys by.
KeyOrder == <<"a", "a.b", "a.c", "b", "c">>

RECURSIVE Marshal(_)
RECURSIVE MarshalMembers(_, _, _)
RECURSIVE MarshalElements(_, _)

\* json.Marshal of a value (config.go 118), as text.
Marshal(v) ==
    CASE v.kind = "num" -> Itoa(v.n)
      [] v.kind = "str" -> "\"" \o v.s \o "\""
      [] v.kind = "bool" -> (IF v.b THEN "true" ELSE "false")
      [] v.kind = "null" -> "null"
      [] v.kind = "map" -> "{" \o MarshalMembers(v.m, 1, TRUE) \o "}"
      [] OTHER -> "[" \o MarshalElements(v.a, 1) \o "]"

MarshalMembers(m, k, first) ==
    IF k > Len(KeyOrder) THEN ""
    ELSE IF KeyOrder[k] \in DOMAIN m
    THEN (IF first THEN "" ELSE ",") \o "\"" \o KeyOrder[k] \o "\":" \o Marshal(m[KeyOrder[k]])
         \o MarshalMembers(m, k + 1, FALSE)
    ELSE MarshalMembers(m, k + 1, first)

MarshalElements(a, k) ==
    IF k > Len(a) THEN ""
    ELSE (IF k > 1 THEN "," ELSE "") \o Marshal(a[k]) \o MarshalElements(a, k + 1)

-----------------------------------------------------------------------------
(* config.Flattener and flatten, config.go 89-132.  flatten ranges over a   *)
(* Go map, whose iteration order is not fixed: the operators return the set *)
(* of rows the call can produce, one per order.                             *)

Without(m, k) == [x \in (DOMAIN m) \ {k} |-> m[x]]

RECURSIVE flatten(_, _, _)
RECURSIVE flattenValue(_, _, _)
RECURSIVE flattenSubvalues(_, _, _, _)

\* config.go 109-132: every key of inputJSON in some order, each handled by
\* the type switch, writing into the one row flattened.
flatten(inputJSON, lkey, flattened) ==
    IF DOMAIN inputJSON = {} THEN {flattened}
    ELSE UNION { UNION { flatten(Without(inputJSON, rkey), lkey, f)
                         : f \in flattenValue(lkey \o rkey, inputJSON[rkey], flattened) }
                 : rkey \in DOMAIN inputJSON }

\* config.go 112-130: the type switch on one value.
flattenValue(key, value, flattened) ==
    CASE value.kind = "map" -> flatten(value.m, key \o ".", flattened)
      [] value.kind = "arr" ->
           flattenSubvalues(value.a, 1, key, {Put(flattened, key, Str(Marshal(value)))})
      [] OTHER -> {Put(flattened, key, value)}

RECURSIVE flattenSubvaluesBackwards(_, _, _, _)
flattenSubvaluesBackwards(a, k, key, outs) ==
    IF k > Len(a) THEN outs
    ELSE flattenSubvaluesBackwards(a, k + 1, key,
            IF a[Len(a) + 1 - k].kind = "map"
            THEN UNION { flatten(a[Len(a) + 1 - k].m, key \o ".", f) : f \in outs }
            ELSE outs)

\* config.go 120-127: the elements of an array in index order; the ones
\* that are maps are flattened under the array's own key.
flattenSubvalues(a, k, key, outs) ==
    IF k > Len(a) THEN outs
    ELSE flattenSubvalues(a, k + 1, key,
            IF a[k].kind = "map"
            THEN UNION { flatten(a[k].m, key \o ".", f) : f \in outs }
            ELSE outs)

FlattenerRootKeyDot == "."

\* config.go 94: the key prefix Flattener starts with.
FlattenerRootKey == ""

\* config.go 91-97
Flattener(r) == flatten(r, FlattenerRootKey, EmptyRow)

-----------------------------------------------------------------------------
(* The rows explored: key "a" holds a scalar, a nested map over the keys    *)
(* "b" and "c" (of scalars, a map or an array) or an array; key "a.b", when *)
(* present, holds a scalar.                                                 *)

\* Longest array explored.
MaxArrayLen == 2

Leaves == {Num(0), Num(5), Str(""), Str("s"), Null}

PartialMaps(keys, values) == UNION { [d -> values] : d \in SUBSET keys }

SubMaps ==
    PartialMaps({"b", "c"},
                {Num(0), Num(5), Str(""), Null,
                 MapVal([c |-> Num(5)]), Arr(<<MapVal([c |-> Num(0)])>>)})

Elements == {Num(5), MapVal([b |-> Num(0)]), MapVal([b |-> Num(5)]), MapVal([c |-> Num(5)])}

Arrays == UNION { [1 .. n -> Elements] : n \in 0 .. MaxArrayLen }

TopValues == Leaves \cup {MapVal(m) : m \in SubMaps} \cup {Arr(a) : a \in Arrays}

Rows ==
    { r \in PartialMaps({"a", "a.b"}, TopValues) :
        "a.b" \in DOMAIN r => r["a.b"] \in Leaves }

\* The engine's variables while only a row's transform chain is looked at.
EngineIdle ==
    /\ procState = "running" /\ fatalBy = <<>> /\ fatalMsg = ""
    /\ pc = "wait" /\ err = NoErr /\ mongoClient = "session"
    /\ numFilesArg = "1" /\ numFiles = 1 /\ i = 1
    /\ outputFilenames = LoopFilenames(1) /\ waitCount = 1
    /\ totalSummedRows = 0 /\ totalMongoRows = 1
    /\ nRows = 1 /\ mongoPos = 1 /\ chanRow = 0 /\ srcClosed = FALSE
    /\ wpc = [w \in Shards |-> IF w = 0 THEN "export" ELSE "none"]
    /\ taken = [w \in Shards |-> IF w = 0 THEN <<1>> ELSE <<>>]
    /\ rows = [w \in Shards |-> 0]
    /\ count = [w \in Shards |-> 0]
    /\ zbuf = [w \in Shards |-> <<>>]
    /\ pipe = [w \in Shards |-> <<>>]
    /\ wClosed = [w \in Shards |-> FALSE]
    /\ upc = [u \in Shards |-> IF u = 0 THEN "upload" ELSE "none"]
    /\ upName = [u \in Shards |-> IF u = 0 THEN LoopFilenames(1)[1] ELSE ""]
    /\ received = [u \in Shards |-> <<>>]
    /\ uploadErr = [u \in Shards |-> FALSE]
    /\ manifestBody = <<>> /\ manifestCalls = 0 /\ manifestStored = FALSE
    /\ payload = <<>>

engineVars == <<exitVars, mainVars, cntVars, srcVars, workerVars, upVars, outVars>>

StagesMaskAfterRemap ==
    <<"Flattener", "Fieldmap", "ExistentialTransformer", "PopulateDate", "count">>

\* main.go 135-142: the stages of exportData's chain, in the order the
\* calls of Map and Fieldmap chain them.
Stages == <<"Flattener", "ExistentialTransformer", "Fieldmap", "PopulateDate", "count">>

\* The stage a row enters once stage st has returned it.
StageAfter(st) ==
    IF st = "none" THEN Stages[1]
    ELSE IF \E j \in 1 .. (Len(Stages) - 1) : Stages[j] = st
    THEN Stages[(CHOOSE j \in 1 .. (Len(Stages) - 1) : Stages[j] = st) + 1]
    ELSE "sink"

\* main.go 135: Map(config.Flattener())
ApplyFlattener ==
    /\ StageAfter(tStage) = "Flattener"
    /\ tPrev' = tRow
    /\ tRow' \in Flattener(tRow)
    /\ tStage' = "Flattener"
    /\ UNCHANGED <<tInput, tTable, engineVars>>

\* Flattener applied to a row it returned.
FlattenAgain ==
    /\ tStage = "Flattener"
    /\ tPrev' = tRow
    /\ tRow' \in Flattener(tRow)
    /\ tStage' = "Flattener again"
    /\ UNCHANGED <<tInput, tTable, engineVars>>

InitFlatten ==
    /\ EngineIdle
    /\ tInput \in Rows
    /\ tTable = <<>>
    /\ tRow = tInput /\ tPrev = tInput
    /\ tStage = "none"

FlattenNext ==
    \/ ApplyFlattener
    \/ FlattenAgain

SpecFlatten == InitFlatten /\ [][FlattenNext]_vars

-----------------------------------------------------------------------------
(* The other stages of the chain: config.GetExistentialTransformerFn,       *)
(* Table.FieldMap with optimus' Fieldmap, config.GetPopulateDateFn.         *)

\* Most columns of a table explored.
MaxFields == 2

\* table.Meta.DataDateColumn
DataDateColumn == "_data_timestamp"

Field(source, dest, pii) == [Source |-> source, Destination |-> dest, PII |-> pii]

\* The columns the explored tables are made of.
FieldSpecs ==
    { Field("a.b", "x", FALSE), Field("a.c", "y", TRUE), Field("a.b", "", TRUE),
      Field("a.b", "y", FALSE), Field("a", "x", TRUE), Field("a.c", DataDateColumn, FALSE) }

Tables == UNION { [1 .. n -> FieldSpecs] : n \in 0 .. MaxFields }

IsZeroOnlyNumbers(x) == x.kind = "num" /\ x.n = 0

\* config.go 85-87: reflect.DeepEqual(x, reflect.Zero(reflect.TypeOf(x)));
\* asked only for values that are not nil.
IsZeroOfUnderlyingType(x) ==
    CASE x.kind = "num" -> x.n = 0
      [] x.kind = "str" -> x.s = ""
      [] x.kind = "bool" -> x.b = FALSE
      [] OTHER -> FALSE

RECURSIVE ExistentialTransformer(_, _, _)
\* config.go 70-82: the fields in order, from field k on.  reflect.TypeOf(nil)
\* is nil and reflect.Zero(nil) panics: the result says so.
ExistentialTransformer(fields, k, r) ==
    IF k > Len(fields) THEN [panic |-> FALSE, row |-> r]
    ELSE LET field == fields[k]
         IN  IF ~field.PII THEN ExistentialTransformer(fields, k + 1, r)
             ELSE IF field.Source \notin DOMAIN r
             THEN ExistentialTransformer(fields, k + 1, Put(r, field.Source, Bool(FALSE)))
             ELSE IF r[field.Source].kind = "null"
             THEN [panic |-> TRUE, row |-> r]
             ELSE ExistentialTransformer(fields, k + 1,
                      Put(r, field.Source, Bool(~IsZeroOfUnderlyingType(r[field.Source]))))

RECURSIVE FieldMapKeepsEmpty(_, _)
FieldMapKeepsEmpty(fields, k) ==
    IF k = 0 THEN EmptyRow
    ELSE LET mappings == FieldMapKeepsEmpty(fields, k - 1)
             field == fields[k]
             list == IF field.Source \in DOMAIN mappings THEN mappings[field.Source] ELSE <<>>
         IN  Put(mappings, field.Source, Append(list, field.Destination))

RECURSIVE FieldMap(_, _)
\* config.go 45-56: the mapping built from the first k fields.
FieldMap(fields, k) ==
    IF k = 0 THEN EmptyRow
    ELSE LET mappings == FieldMap(fields, k - 1)
             field == fields[k]
             list == IF field.Source \in DOMAIN mappings THEN mappings[field.Source] ELSE <<>>
         IN  IF field.Destination # ""
             THEN Put(mappings, field.Source, Append(list, field.Destination))
             ELSE mappings

RECURSIVE FieldmapVals(_, _, _, _, _)
\* optimus transforms.Fieldmap, inner loop: newRow[val] = row[key] for the
\* destinations of one source key that the row holds.
FieldmapVals(vals, k, key, row, newRow) ==
    IF k > Len(vals) THEN newRow
    ELSE FieldmapVals(vals, k + 1, key, row,
            IF key \in DOMAIN row THEN Put(newRow, vals[k], row[key]) ELSE newRow)

RECURSIVE Fieldmap(_, _, _)
\* optimus transforms.Fieldmap (main.go 137): ranges over the mapping, a Go
\* map, in some order; the set of rows the call can return.
Fieldmap(mappings, row, newRow) ==
    IF DOMAIN mappings = {} THEN {newRow}
    ELSE UNION { Fieldmap(Without(mappings, key), row,
                          FieldmapVals(mappings[key], 1, key, row, newRow))
                 : key \in DOMAIN mappings }

PopulateDateKeepsExisting(dataDateColumn, timestamp, r) ==
    IF dataDateColumn \in DOMAIN r THEN r ELSE Put(r, dataDateColumn, Str(timestamp))

\* config.go 60-65
PopulateDate(dataDateColumn, timestamp, r) == Put(r, dataDateColumn, Str(timestamp))

\* main.go 136: Map(existentialTransformer)
ApplyExistentialTransformer ==
    /\ StageAfter(tStage) = "ExistentialTransformer"
    /\ LET res == ExistentialTransformer(tTable, 1, tRow)
       IN  /\ tStage' = IF res.panic THEN "panic" ELSE "ExistentialTransformer"
           /\ tRow' = res.row
    /\ tPrev' = tRow
    /\ UNCHANGED <<tInput, tTable, engineVars>>

\* main.go 137: Fieldmap(table.FieldMap())
ApplyFieldmap ==
    /\ StageAfter(tStage) = "Fieldmap"
    /\ tRow' \in Fieldmap(FieldMap(tTable, Len(tTable)), tRow, EmptyRow)
    /\ tPrev' = tRow
    /\ tStage' = "Fieldmap"
    /\ UNCHANGED <<tInput, tTable, engineVars>>

\* main.go 138: Map(datePopulator)
ApplyPopulateDate ==
    /\ StageAfter(tStage) = "PopulateDate"
    /\ tRow' = PopulateDate(DataDateColumn, Timestamp.text, tRow)
    /\ tPrev' = tRow
    /\ tStage' = "PopulateDate"
    /\ UNCHANGED <<tInput, tTable, engineVars>>

\* main.go 139-142: the counting stage returns the row it was given, which
\* Sink hands to the json sink.
ApplyCount ==
    /\ StageAfter(tStage) = "count"
    /\ tRow' = tRow
    /\ tPrev' = tRow
    /\ tStage' = "count"
    /\ UNCHANGED <<tInput, tTable, engineVars>>

InitPipeline ==
    /\ EngineIdle
    /\ tInput \in Rows
    /\ tTable \in Tables
    /\ tRow = tInput /\ tPrev = tInput
    /\ tStage = "none"

PipelineNext ==
    \/ ApplyFlattener
    \/ ApplyExistentialTransformer
    \/ ApplyFieldmap
    \/ ApplyPopulateDate
    \/ ApplyCount

SpecPipeline == InitPipeline /\ [][PipelineNext]_vars

-----------------------------------------------------------------------------
(* Properties *)

Spawned == 0 .. (numFiles - 1)
PastBarrier == pc \in {"verify", "manifest", "uploadManifest", "payload", "done"}
ManifestReached == pc \in {"uploadManifest", "payload", "done"} \/ manifestCalls > 0
Holders(r) == {w \in Shards : \E k \in 1 .. Len(taken[w]) : taken[w][k] = r}
WorkerFailed == fatalBy # <<>> /\ fatalBy[1] = "worker"

\* C1: every row the source has yielded is on the shared channel or was
\* received by exactly one shard worker, once; a worker holds only rows the
\* source yielded; past the barrier every row of the collection has exactly
\* one holder, which has written it to its sink.
C1_ExactlyOnce ==
    /\ \A w \in Shards : \A k1, k2 \in 1 .. Len(taken[w]) :
          taken[w][k1] = taken[w][k2] => k1 = k2
    /\ \A r \in 1 .. mongoPos :
          IF r = chanRow THEN Holders(r) = {} ELSE Cardinality(Holders(r)) = 1
    /\ \A w \in Shards : \A k \in 1 .. Len(taken[w]) : taken[w][k] \in 1 .. mongoPos
    /\ PastBarrier =>
          /\ mongoPos = nRows /\ chanRow = 0
          /\ \A w \in Spawned : rows[w] = Len(taken[w])

C1_Witness ==
    /\ procState = "exit0" /\ numFiles >= 2 /\ nRows >= 2
    /\ Len(taken[0]) >= 1 /\ Len(taken[1]) >= 1
    /\ \A r \in 1 .. nRows : Cardinality(Holders(r)) = 1

\* C2: once the run has reached the manifest publication, the per-shard row
\* counts add up to the rows-read counter (and to the global sum).
C2_SumEqualsRead ==
    ManifestReached =>
        /\ SumUpTo(count, numFiles) = totalMongoRows
        /\ totalSummedRows = totalMongoRows

C2_Witness ==
    /\ manifestStored /\ numFiles >= 2
    /\ count[0] >= 1 /\ count[1] >= 1
    /\ totalMongoRows = count[0] + count[1]

\* C3: the manifest upload is reached only when the upload of every part has
\* returned without error; once a part's upload has returned an error the
\* process has been stopped and no manifest upload was or will be made.
C3_ManifestAfterAllUploads ==
    /\ ManifestReached =>
          \A u \in Spawned : upc[u] = "done" /\ ~uploadErr[u]
    /\ (\E u \in Shards : uploadErr[u]) =>
          /\ procState = "fatal" /\ fatalMsg = UploadMsg
          /\ manifestCalls = 0 /\ ~manifestStored /\ pc \notin {"uploadManifest", "payload", "done"}

C3_Witness ==
    /\ numFiles >= 2
    /\ uploadErr[1] /\ procState = "fatal"
    /\ upc[0] = "done" /\ ~uploadErr[0]
    /\ manifestCalls = 0

\* C4: when the rows-read counter differs from the sum of the shard row
\* counts, main gets no further than the comparison: the run is stopped there
\* with the mismatch message, no manifest is built or uploaded and no payload
\* is printed.
C4_MismatchIsFatal ==
    totalMongoRows # SumUpTo(count, numFiles) =>
        /\ pc \in {"wait", "verify"}
        /\ procState \in {"running", "fatal"}
        /\ procState = "fatal" => fatalMsg = MismatchMsg
        /\ (pc = "verify" /\ procState = "running") => ENABLED Verify
        /\ manifestBody = <<>> /\ manifestCalls = 0 /\ ~manifestStored
        /\ payload = <<>>

C4_Witness ==
    /\ totalMongoRows # SumUpTo(count, numFiles)
    /\ pc = "verify" /\ procState = "fatal" /\ fatalMsg = MismatchMsg
    /\ manifestCalls = 0 /\ payload = <<>>

\* C5: once a shard worker has hit a fatal error the process is stopped: no
\* manifest was or is uploaded, no payload printed, and from then on nothing
\* changes any more (no other worker adds its count or closes its stream).
C5_WorkerFatalStopsRun ==
    /\ [](WorkerFailed =>
            /\ procState = "fatal"
            /\ manifestCalls = 0 /\ ~manifestStored /\ payload = <<>>
            /\ pc \notin {"verify", "manifest", "uploadManifest", "payload", "done"})
    /\ [][WorkerFailed => UNCHANGED vars]_vars

C5_Witness ==
    /\ numFiles >= 2
    /\ fatalBy = <<"worker", 0>> /\ fatalMsg = "err reading table"
    /\ wpc[1] = "export" /\ Len(taken[1]) >= 1
    /\ procState = "fatal"

\* C6 (as claimed): a run whose source connection is established and in which
\* no step has returned an error is not aborted.
C6_NoFailureNoAbort ==
    (mongoClient = "session" /\ err = NoErr) => procState # "fatal"

C8_ManifestOnceAfterVerify ==
    /\ manifestCalls <= 1
    /\ procState = "exit0" => manifestCalls = 1
    /\ (manifestCalls >= 1 \/ pc \in {"manifest", "uploadManifest"}) =>
          /\ totalSummedRows = totalMongoRows
          /\ pc \in {"manifest", "uploadManifest", "payload", "done"}
    /\ manifestCalls = 0 => ~manifestStored

C8_Witness ==
    /\ procState = "exit0" /\ manifestCalls = 1 /\ manifestStored
    /\ numFiles >= 2 /\ totalMongoRows >= 1

\* C9: the payload is printed only after the manifest upload has returned
\* success; a run that was stopped by a failure, or in which an upload
\* returned an error, has printed none.
C9_PayloadOnlyOnSuccess ==
    /\ payload # <<>> =>
          /\ manifestStored /\ manifestCalls = 1
          /\ procState = "exit0"
          /\ \A u \in Spawned : upc[u] = "done" /\ ~uploadErr[u]
    /\ (procState = "fatal" \/ fatalBy # <<>> \/ \E u \in Shards : uploadErr[u]) =>
          payload = <<>>

C9_Witness ==
    /\ payload # <<>> /\ manifestStored /\ procState = "exit0"
    /\ numFiles >= 2 /\ nRows >= 1

\* C10: the manifest built for N parts has exactly N entries; entry k
\* (0-based) is the s3 URL of the name handed to uploader k, with mandatory
\* true, whatever the parts' row counts.
C10_ManifestEntries ==
    pc \in {"uploadManifest", "payload", "done"} =>
        /\ Len(manifestBody) = numFiles
        /\ \A k \in Spawned :
              manifestBody[k + 1] = [url |-> S3Url(Bucket, upName[k]), mandatory |-> TRUE]
        /\ \A k1, k2 \in Spawned : k1 # k2 => manifestBody[k1 + 1] # manifestBody[k2 + 1]

C10_Witness ==
    /\ manifestStored /\ numFiles > nRows /\ nRows >= 1
    /\ \E w \in Spawned : count[w] = 0 /\ taken[w] = <<>> /\ upc[w] = "done"
    /\ Len(manifestBody) = numFiles

\* C11: the number of parts is checked before anything is spawned: main gets
\* past the argument check only with numFiles >= 1, and a run stopped there
\* has spawned nothing; the loop spawns worker k and uploader k together for
\* k = 0, 1, ..., and once the loop is left exactly numFiles workers and
\* numFiles uploaders exist, none beyond.
C11_ShardCountValidated ==
    /\ pc # "parse" => numFiles >= 1
    /\ pc \in {"parse", "config", "table", "connect", "checkConn", "source"} =>
          /\ i = 0
          /\ \A s \in Shards : wpc[s] = "none" /\ upc[s] = "none"
    /\ i <= numFiles \/ pc = "parse"
    /\ \A s \in Shards : (wpc[s] # "none") <=> (s < i)
    /\ \A s \in Shards : (upc[s] # "none") <=> (s < i)
    /\ PastBarrier \/ pc = "wait" =>
          /\ i = numFiles
          /\ Cardinality({s \in Shards : wpc[s] # "none"}) = numFiles
          /\ Cardinality({s \in Shards : upc[s] # "none"}) = numFiles

C11_Witness ==
    /\ pc = "wait" /\ numFiles = MaxShards
    /\ \A s \in Shards : wpc[s] # "none" /\ upc[s] # "none"

\* C12: the write end of a part's pipe is closed only by a worker whose
\* compressor has been closed before: the compressor holds nothing, its
\* trailer has gone down the pipe and has been read, and the worker is past
\* both deferred calls.
C12_GzipClosedBeforePipe ==
    \A w \in Shards :
        /\ wClosed[w] =>
              /\ wpc[w] \in {"ret", "done"}
              /\ zbuf[w] = <<>> /\ pipe[w] = <<>>
              /\ received[w] # <<>> /\ received[w][Len(received[w])] = "trl"
        /\ wpc[w] \in {"ret", "done"} => wClosed[w]

C12_Witness ==
    /\ Running /\ wClosed[0] /\ wpc[0] = "ret"
    /\ rows[0] >= 1
    /\ received[0][1] = "hdr" /\ received[0][Len(received[0])] = "trl"
    /\ Len(received[0]) = rows[0] + 2

\* A row whose values are neither maps nor arrays.
IsFlat(r) == \A k \in DOMAIN r : r[k].kind \notin {"map", "arr"}

\* C16: Flattener applied to a row it returned gives that row back, and
\* applied to a row without nested maps and arrays it returns the row.
C16_FlattenIdempotent ==
    /\ tStage = "Flattener again" => tRow = tPrev
    /\ (tStage = "Flattener" /\ IsFlat(tInput)) => tRow = tInput

C16_Witness ==
    /\ tStage = "Flattener again"
    /\ tInput = [a |-> Arr(<<MapVal([b |-> Num(0)]), Num(5)>>)]
    /\ tRow = [x \in {"a", "a.b"} |-> IF x = "a" THEN Str("[{\"b\":0},5]") ELSE Num(0)]

\* DateStamp(FieldRemap(PiiMask(Flatten(r)))): the rows the four functions
\* give when applied in this order.
Composed(r, fields) ==
    { PopulateDate(DataDateColumn, Timestamp.text, m) :
        m \in UNION { Fieldmap(FieldMap(fields, Len(fields)),
                               ExistentialTransformer(fields, 1, f).row, EmptyRow)
                      : f \in { g \in Flattener(r) :
                                  ~ExistentialTransformer(fields, 1, g).panic } } }

ScenarioInput == [a |-> MapVal([b |-> Num(5), c |-> Num(0)])]
ScenarioTable == <<Field("a.b", "x", FALSE), Field("a.c", "y", TRUE)>>
ScenarioOutput ==
    [k \in {"x", "y", DataDateColumn} |->
        IF k = "x" THEN Num(5) ELSE IF k = "y" THEN Bool(FALSE) ELSE Str(Timestamp.text)]

\* C13: the row that reaches the sink is the source row flattened, then
\* masked, then remapped, then date-stamped, in this order; for the fields
\* a.b -> x and a.c -> y (sensitive) the row {a: {b: 5, c: 0}} reaches the
\* sink as {x: 5, y: false, _data_timestamp: <timestamp>}.
C13_StagesInOrder ==
    tStage = "count" =>
        /\ tRow \in Composed(tInput, tTable)
        /\ (tInput = ScenarioInput /\ tTable = ScenarioTable) => tRow = ScenarioOutput

C13_Witness ==
    /\ tStage = "count"
    /\ tInput = ScenarioInput /\ tTable = ScenarioTable
    /\ tRow = ScenarioOutput

\* C14: the mask stage leaves, at the source path of every sensitive field,
\* false when the flattened row held 0 or the empty string there or did not
\* hold the key, and true when it held a non-zero number or a non-empty
\* string.
C14_MaskValues ==
    tStage = "ExistentialTransformer" =>
        \A k \in 1 .. Len(tTable) :
            tTable[k].PII =>
                LET src == tTable[k].Source
                    present == src \in DOMAIN tPrev
                IN  /\ src \in DOMAIN tRow
                    /\ (~present \/ tPrev[src] \in {Num(0), Str("")}) => tRow[src] = Bool(FALSE)
                    /\ (present /\ tPrev[src].kind = "num" /\ tPrev[src].n # 0)
                          => tRow[src] = Bool(TRUE)
                    /\ (present /\ tPrev[src].kind = "str" /\ tPrev[src].s # "")
                          => tRow[src] = Bool(TRUE)

C14_Witness ==
    /\ tStage = "ExistentialTransformer"
    /\ tTable = <<Field("a.c", "y", TRUE), Field("a.b", "", TRUE)>>
    /\ tPrev = [k \in {"a.b", "a.c"} |-> IF k = "a.b" THEN Str("") ELSE Num(5)]
    /\ tRow = [k \in {"a.b", "a.c"} |-> IF k = "a.b" THEN Bool(FALSE) ELSE Bool(TRUE)]

\* C15 (as claimed): the keys of the remapped row are exactly the non-empty
\* destinations of the table's fields.
C15_KeysAreAllDestinations ==
    tStage = "Fieldmap" =>
        DOMAIN tRow = { tTable[k].Destination :
                          k \in { j \in 1 .. Len(tTable) : tTable[j].Destination # "" } }

\* C15 (amended): the keys of the remapped row are exactly the non-empty
\* destinations of the fields whose source path is a key of the row the
\* remap is given; each holds the value of such a source; the source path of
\* a sensitive field always is a key of that row; the empty destination
\* does not appear.
C15_KeysAreDestinationsOfPresentSources ==
    tStage = "Fieldmap" =>
        LET mapped == { j \in 1 .. Len(tTable) :
                          tTable[j].Destination # "" /\ tTable[j].Source \in DOMAIN tPrev }
        IN  /\ DOMAIN tRow = { tTable[k].Destination : k \in mapped }
            /\ \A d \in DOMAIN tRow :
                  \E k \in mapped : tTable[k].Destination = d /\ tRow[d] = tPrev[tTable[k].Source]
            /\ \A k \in 1 .. Len(tTable) : tTable[k].PII => tTable[k].Source \in DOMAIN tPrev
            /\ "" \notin DOMAIN tRow

C15_Witness ==
    /\ tStage = "Fieldmap"
    /\ tTable = <<Field("a.b", "x", FALSE), Field("a.b", "y", FALSE)>>
    /\ tPrev = [k \in {"a.b", "a.c"} |-> IF k = "a.b" THEN Num(5) ELSE Num(0)]
    /\ tRow = [k \in {"x", "y"} |-> Num(5)]

\* The shard workers that have executed their atomic add.
Added == {w \in Spawned : wpc[w] \in {"zipClose", "zipWait", "pipeClose", "ret", "done"}}

RECURSIVE SumOver(_, _)
SumOver(f, S) == IF S = {} THEN 0 ELSE LET x == CHOOSE y \in S : TRUE IN f[x] + SumOver(f, S \ {x})

\* C17: the rows-read counter always equals the number of rows the source
\* has yielded, so the number of rows of the collection once the source is
\* exhausted; the global sum always equals the sum of the counts of the
\* workers that have added theirs, so the sum of all counts once every
\* worker has finished.
C17_NoLostIncrement ==
    /\ totalMongoRows = mongoPos
    /\ srcClosed => totalMongoRows = nRows
    /\ totalSummedRows = SumOver(count, Added)
    /\ (numFiles >= 1 /\ Added = Spawned /\ pc # "source") =>
          totalSummedRows = SumUpTo(count, numFiles)

C17_Witness ==
    /\ Running /\ numFiles >= 2 /\ srcClosed
    /\ Added = Spawned
    /\ count[0] >= 1 /\ count[1] >= 1
    /\ totalSummedRows = count[0] + count[1] /\ totalMongoRows = nRows

\* C18: when main is past the barrier and reads the two counters, every
\* shard worker has added its count to the global sum, the source has
\* yielded its last row and counted it, and no row is in flight; the
\* barrier cannot be passed before.
C18_CountersFinalAtVerify ==
    /\ (PastBarrier \/ (pc = "wait" /\ WaitReturns(waitCount))) =>
          /\ Added = Spawned
          /\ totalSummedRows = SumUpTo(count, numFiles)
          /\ mongoPos = nRows /\ totalMongoRows = nRows /\ chanRow = 0
          /\ \A w \in Spawned : count[w] = Len(taken[w])
    /\ (pc = "wait" /\ Added # Spawned) => ~WaitReturns(waitCount)

C18_Witness ==
    /\ Running /\ pc = "verify" /\ numFiles >= 2 /\ nRows >= 2
    /\ count[0] >= 1 /\ count[1] >= 1
    /\ wpc[0] = "ret" /\ wpc[1] = "ret"
    /\ totalSummedRows = nRows /\ totalMongoRows = nRows

\* C19: in every fair run of the engine that starts without an error value
\* and in which no call fails, main gets past the barrier with every part's
\* stream closed by its worker and every uploader returned, whatever the
\* number of parts and of rows: a run is stopped by a failure or gets there.
C19_EventuallyPastBarrier ==
    (err = NoErr) =>
        <>(\/ procState = "fatal"
           \/ /\ PastBarrier
              /\ \A s \in Spawned : wClosed[s] /\ upc[s] = "done")

C19_Witness ==
    /\ Running /\ PastBarrier
    /\ numFiles = 2 /\ nRows = 1
    /\ \A s \in Spawned : wClosed[s] /\ upc[s] = "done"
    /\ \E s \in Spawned : count[s] = 0

\* Bytes handed to the pipe by Writes that have returned and that the
\* uploader has not read.
Unread(w) == IF wpc[w] \in {"writeWait", "zipWait"} THEN <<>> ELSE pipe[w]

\* C20: the bytes a worker has written into its pipe and the uploader has
\* not read never exceed the pipe's capacity; whatever the pipe holds belongs
\* to one Write that has not returned, so a Write does not complete before
\* the uploader has drained it.
C20_PipeBounded ==
    \A w \in Shards :
        /\ Len(Unread(w)) <= PipeCapacity
        /\ pipe[w] # <<>> => wpc[w] \in {"writeWait", "zipWait"}

C20_Witness ==
    \E w \in Spawned :
        /\ Running
        /\ wpc[w] = "writeWait" /\ pipe[w] # <<>>
        /\ upc[w] = "upload" /\ received[w] # <<>>

\* What the uploader of part w reads when the rows go down the pipe in the
\* order in which the worker received them.
InClaimOrder(w) == <<"hdr">> \o taken[w] \o <<"trl">>

\* C21: what the uploader of a part has read is, between the gzip header and
\* trailer, the rows its worker received from the shared channel, in the
\* order in which it received them.
C21_UploadOrderIsClaimOrder ==
    \A w \in Shards :
        /\ Len(received[w]) <= Len(InClaimOrder(w))
        /\ \A k \in 1 .. Len(received[w]) : received[w][k] = InClaimOrder(w)[k]

C21_Witness ==
    \E w \in Spawned :
        /\ Running /\ numFiles = 2
        /\ Len(taken[w]) = 2 /\ taken[w][1] < taken[w][2]
        /\ taken[w][2] - taken[w][1] = 2
        /\ received[w] = InClaimOrder(w)

\* The name of part k.
PartName(k) == formatFilename(Timestamp, Destination, Itoa(k), ".json.gz")

\* C22: once iteration k of the loop has run, the name recorded for part k
\* and the name held by uploader k are both the name of part k, in every
\* later state; no byte of part k is in its pipe or with an uploader before
\* that; uploader k has read from worker k's pipe only; and the manifest
\* lists that name at position k.
C22_PartNameFixed ==
    /\ \A k \in Shards :
          IF k < i
          THEN /\ upName[k] = PartName(k)
               /\ outputFilenames[k + 1] = PartName(k)
               /\ \A j \in 2 .. Len(received[k]) :
                     j <= rows[k] + 1 =>
                        \E n \in 1 .. Len(taken[k]) : received[k][j] = taken[k][n]
          ELSE pipe[k] = <<>> /\ received[k] = <<>> /\ upName[k] = ""
    /\ \A k1, k2 \in Shards : k1 < k2 /\ k2 < i => upName[k1] # upName[k2]
    /\ pc \in {"uploadManifest", "payload", "done"} =>
          \A k \in Spawned : manifestBody[k + 1].url = S3Url(Bucket, PartName(k))

C22_Witness ==
    /\ Running /\ numFiles = 2 /\ pc = "uploadManifest"
    /\ upName[0] = PartName(0) /\ upName[1] = PartName(1)
    /\ Len(received[0]) >= 3 /\ Len(received[1]) >= 3
    /\ Len(manifestBody) = 2

\* C23 (as claimed): main is past the connection check exactly when the
\* connection was established: it is at or past the set-up of the source only
\* with a session, and a run with a session is not ended by the connection
\* check.
C23_ContinuesIffConnected ==
    /\ pc \notin {"parse", "config", "table", "connect", "checkConn"} =>
          mongoClient = "session"
    /\ fatalMsg = "Could not connect to mongo" => mongoClient = "nil"

\* compress/gzip: BestSpeed, and the error NewWriterLevel returns for a level
\* outside HuffmanOnly .. BestCompression.
BestSpeed == 1
NewWriterLevelErr(level) ==
    IF level \in (-2) .. 9 THEN NoErr ELSE "gzip: invalid compression level"

PIISources(fields) == {fields[k].Source : k \in {j \in 1 .. Len(fields) : fields[j].PII}}

\* What the masking stage is to return: a boolean at the source key of every
\* sensitive field, the row's other keys with the values they had.
MaskedAsSpecified ==
    /\ DOMAIN tRow = DOMAIN tPrev \cup PIISources(tTable)
    /\ \A k \in PIISources(tTable) : tRow[k].kind = "bool"
    /\ \A k \in DOMAIN tPrev \ PIISources(tTable) : tRow[k] = tPrev[k]

\* C25 (as claimed): the masking stage never panics, and the row it returns
\* holds a boolean at the source key of every sensitive field and the row's
\* other keys with the values they had.
C25_MaskTotal ==
    /\ tStage # "panic"
    /\ tStage = "ExistentialTransformer" => MaskedAsSpecified

\* C26: a row that has passed the date stage, and so every row handed to the
\* sink, holds the run's timestamp at the date column, also when the remap
\* had put a value there; the date stage adds or replaces that one key and
\* returns every other key with the value it had.
C26_DateStamped ==
    /\ tStage \in {"PopulateDate", "count"} =>
          /\ DataDateColumn \in DOMAIN tRow
          /\ tRow[DataDateColumn] = Str(Timestamp.text)
    /\ tStage = "PopulateDate" =>
          /\ DOMAIN tRow = DOMAIN tPrev \cup {DataDateColumn}
          /\ \A k \in DOMAIN tPrev \ {DataDateColumn} : tRow[k] = tPrev[k]

C26_Witness ==
    /\ tStage = "PopulateDate"
    /\ \E k \in 1 .. Len(tTable) : tTable[k].Destination = DataDateColumn
    /\ DataDateColumn \in DOMAIN tPrev
    /\ tPrev[DataDateColumn] = Num(5)
    /\ DOMAIN tPrev # {DataDateColumn}
    /\ tRow[DataDateColumn] = Str(Timestamp.text)

\* The elements of an array that are maps holding the key ch.
Having(e, ch) == {j \in 1 .. Len(e) : e[j].kind = "map" /\ ch \in DOMAIN e[j].m}

Last(S) == CHOOSE j \in S : \A n \in S : n <= j

\* C27: the row Flattener returns holds no map and no array.  For a nested
\* map at key a it holds no key a, and key a.ch with the value of every child
\* ch that is not itself a map or an array.  For an array at key a it holds
\* the array's JSON text at a and, for every child key ch of elements that
\* are maps, the value of the last such element at a.ch; an array without
\* such elements contributes the text only.  (A key that the input row
\* itself spells a.ch is left out: it is written by two places.)
C27_FlattenShape ==
    tStage = "Flattener" =>
        /\ IsFlat(tRow)
        /\ \A k \in DOMAIN tInput : tInput[k].kind \notin {"map", "arr"} /\ k # "a.b" =>
              k \in DOMAIN tRow /\ tRow[k] = tInput[k]
        /\ ("a" \in DOMAIN tInput /\ tInput["a"].kind = "map") =>
              /\ "a" \notin DOMAIN tRow
              /\ DOMAIN tRow \subseteq {"a.b", "a.c", "a.b.c", "a.c.c"}
              /\ \A ch \in {"b", "c"} :
                    LET m == tInput["a"].m
                        key == "a." \o ch
                    IN  key \notin DOMAIN tInput =>
                          IF ch \in DOMAIN m /\ m[ch].kind # "map"
                          THEN /\ key \in DOMAIN tRow
                               /\ tRow[key] = IF m[ch].kind = "arr"
                                               THEN Str(Marshal(m[ch])) ELSE m[ch]
                          ELSE key \notin DOMAIN tRow
        /\ ("a" \in DOMAIN tInput /\ tInput["a"].kind = "arr") =>
              /\ "a" \in DOMAIN tRow /\ tRow["a"] = Str(Marshal(tInput["a"]))
              /\ DOMAIN tRow \subseteq {"a", "a.b", "a.c"}
              /\ \A ch \in {"b", "c"} :
                    LET e == tInput["a"].a
                        key == "a." \o ch
                    IN  key \notin DOMAIN tInput =>
                          IF Having(e, ch) # {}
                          THEN /\ key \in DOMAIN tRow
                               /\ tRow[key] = e[Last(Having(e, ch))].m[ch]
                          ELSE key \notin DOMAIN tRow

C27_Witness ==
    /\ tStage = "Flattener"
    /\ tInput = [a |-> Arr(<<MapVal([b |-> Num(0)]), MapVal([b |-> Num(5)])>>)]
    /\ tRow = [x \in {"a", "a.b"} |->
                 IF x = "a" THEN Str("[{\"b\":0},{\"b\":5}]") ELSE Num(5)]

====
